---- MODULE Spec2Model ----
(***************************************************************************)
(* Energie Data Combiner (src/app.py): the meter parsers, the price        *)
(* parser, the hybrid PV estimator, the merge block of the "process"       *)
(* button, the date-range filter and the two spreadsheet exports, as a     *)
(* state machine over the Streamlit session.                               *)
(*                                                                         *)
(* Timestamps are minutes since 1970-01-01 00:00, dates are day numbers    *)
(* since 1970-01-01. A DataFrame is a sequence of rows, a row a function   *)
(* from column names to values. Python's None is the empty sequence <<>>   *)
(* and a present value x is <<x>>.                                         *)
(***************************************************************************)
EXTENDS Integers, Sequences, FiniteSets, TLC

\* ------------------------------------------------------------------------
\* Bounds of the model
\* ------------------------------------------------------------------------
MaxRows == 2        \* data rows in an uploaded standard meter file
MaxSlot == 1        \* distinct start moments a standard row can carry (0..MaxSlot)
MaxPriceRows == 2   \* rows in BelpexFilter.csv
MaxAmrRows == 1     \* rows after the 4 skipped lines of an AMR file
MaxPvHour == 1      \* hours of the TMY weather index (0..MaxPvHour)

\* ------------------------------------------------------------------------
\* Program constants
\* ------------------------------------------------------------------------
AmrIndicatorCol == 7      \* df.iloc[:, 7]
AmrFirstValueCol == 10    \* range(10, 10 + 96)
AmrValueCount == 96
QuarterMinutes == 15
RetryTotal == 3           \* Retry(total=3, ...)
WattPerKw == 1000
QuartersPerHour == 4
PriceDivisor == 1000

NaN == -999999999             \* pandas' missing value (NaN / NaT) in a numeric cell

None == <<>>
Some(x) == <<x>>
IsNone(o) == o = <<>>
Get(o) == o[1]

\* ------------------------------------------------------------------------
\* Calendar: what pd.to_datetime, .dt.strftime, .dt.floor and .dt.date compute
\* ------------------------------------------------------------------------
IsLeap(y) == (y % 4 = 0 /\ y % 100 # 0) \/ y % 400 = 0

DaysInMonth(y, m) ==
    IF m \in {4, 6, 9, 11} THEN 30
    ELSE IF m = 2 THEN (IF IsLeap(y) THEN 29 ELSE 28)
    ELSE 31

ValidDate(d, m, y) == y \in 1970..2099 /\ m \in 1..12 /\ d >= 1 /\ d <= DaysInMonth(y, m)
ValidTime(h, mi) == h \in 0..23 /\ mi \in 0..59

\* day number of the civil date y-m-d
DaysFromCivil(y, m, d) ==
    LET yy == IF m <= 2 THEN y - 1 ELSE y
        era == yy \div 400
        yoe == yy - era * 400
        mp == IF m > 2 THEN m - 3 ELSE m + 9
        doy == (153 * mp + 2) \div 5 + d - 1
        doe == yoe * 365 + yoe \div 4 - yoe \div 100 + doy
    IN era * 146097 + doe - 719468

\* <<year, month, day>> of a day number
CivilFromDays(z) ==
    LET zz == z + 719468
        era == zz \div 146097
        doe == zz - era * 146097
        yoe == (doe - doe \div 1460 + doe \div 36524 - doe \div 146096) \div 365
        doy == doe - (365 * yoe + yoe \div 4 - yoe \div 100)
        mp == (5 * doy + 2) \div 153
        d == doy - (153 * mp + 2) \div 5 + 1
        m == IF mp < 10 THEN mp + 3 ELSE mp - 9
        y == yoe + era * 400 + (IF m <= 2 THEN 1 ELSE 0)
    IN <<y, m, d>>

MinutesPerDay == 1440
MinutesPerHour == 60

Timestamp(y, m, d, h, mi) == DaysFromCivil(y, m, d) * MinutesPerDay + h * MinutesPerHour + mi

DateOf(t) == t \div MinutesPerDay                  \* .dt.date
FloorHour(t) == t - (t % MinutesPerHour)           \* .dt.floor('H')
HourOf(t) == (t % MinutesPerDay) \div MinutesPerHour
MinuteOf(t) == t % MinutesPerHour

\* .dt.strftime('%m-%d %H:%M')
\* the key with the year kept
MatchKeyWithYear(t) ==
    LET c == CivilFromDays(DateOf(t)) IN <<c[1], c[2], c[3], HourOf(t), MinuteOf(t)>>

MatchKey(t) ==
    LET c == CivilFromDays(DateOf(t)) IN <<c[2], c[3], HourOf(t), MinuteOf(t)>>

\* .dt.strftime('%d/%m/%Y') and .dt.strftime('%H:%M:%S')
FormatDate(t) == LET c == CivilFromDays(DateOf(t)) IN <<c[3], c[2], c[1]>>
FormatTime(t) == <<HourOf(t), MinuteOf(t), 0>>

\* f"{start_date}": a datetime.date prints as yyyy-mm-dd
IsoDate(d) == CivilFromDays(d)

\* ------------------------------------------------------------------------
\* Text cells. A date cell is the tuple of its numeric fields in file order,
\* a time cell <<HH, MM>>, a number or price cell a sequence of characters.
\* ------------------------------------------------------------------------
Digits == {"0", "1", "2", "3", "4", "5", "6", "7", "8", "9"}

DigitValue(c) ==
    CASE c = "0" -> 0 [] c = "1" -> 1 [] c = "2" -> 2 [] c = "3" -> 3 [] c = "4" -> 4
      [] c = "5" -> 5 [] c = "6" -> 6 [] c = "7" -> 7 [] c = "8" -> 8 [] c = "9" -> 9

RECURSIVE DigitsValue(_)
DigitsValue(s) ==
    IF s = <<>> THEN 0 ELSE 10 * DigitsValue(SubSeq(s, 1, Len(s) - 1)) + DigitValue(s[Len(s)])

AllDigits(s) == \A i \in 1..Len(s) : s[i] \in Digits

\* str.replace(old, new) on a sequence of characters
ReplaceChar(s, old, new) == [i \in 1..Len(s) |-> IF s[i] = old THEN new ELSE s[i]]

\* pd.to_numeric of a whole-number cell ("12", "-3"); NaN when it is not one
IntOfText(s) ==
    LET neg == Len(s) >= 1 /\ s[1] = "-"
        body == IF neg THEN Tail(s) ELSE s
    IN IF body # <<>> /\ AllDigits(body)
       THEN (IF neg THEN -DigitsValue(body) ELSE DigitsValue(body))
       ELSE NaN

\* pd.to_datetime(date + ' ' + time, dayfirst=True) of one row; NaN when it raises
ParseDayFirst(datum, tijdstip) ==
    IF Len(datum) = 3 /\ Len(tijdstip) = 2
       /\ ValidDate(datum[1], datum[2], datum[3]) /\ ValidTime(tijdstip[1], tijdstip[2])
    THEN Timestamp(datum[3], datum[2], datum[1], tijdstip[1], tijdstip[2])
    ELSE NaN

\* ------------------------------------------------------------------------
\* DataFrame helpers
\* ------------------------------------------------------------------------
EmptyDf == <<>>
\* a frame with its rows computed once
Frame(rows) == rows \o <<>>
IsEmpty(df) == Len(df) = 0
ColumnSet(df, c) == {df[i][c] : i \in 1..Len(df)}
HasColumn(df, c) == df # <<>> /\ c \in DOMAIN df[1]
Result(df, msgs) == [df |-> df, msgs |-> msgs]

\* ------------------------------------------------------------------------
\* process_energy_file: the standard (register-tagged) meter file
\* ------------------------------------------------------------------------
StdColumns == {"Van (datum)", "Van (tijdstip)", "Register", "Volume"}

StdTijdstip(row) == ParseDayFirst(row["Van (datum)"], row["Van (tijdstip)"])

process_energy_file(file_upload, register_type) ==
    IF IsNone(file_upload) THEN Result(EmptyDf, {})
    ELSE
    LET f == Get(file_upload)
        rows == f.rows
        filtered == SelectSeq(rows, LAMBDA r : r["Register"] = register_type)
        volumes == [i \in 1..Len(filtered) |-> IntOfText(filtered[i]["Volume"])]
    IN IF ~({"Van (datum)", "Van (tijdstip)"} \subseteq f.columns) THEN Result(EmptyDf, {"error_std"})
       ELSE IF \E i \in 1..Len(rows) : StdTijdstip(rows[i]) = NaN THEN Result(EmptyDf, {"error_std"})
       ELSE IF "Register" \notin f.columns THEN Result(EmptyDf, {"error_std"})
       ELSE IF "Volume" \notin f.columns THEN Result(EmptyDf, {"error_std"})
       ELSE IF \E i \in 1..Len(filtered) : volumes[i] = NaN THEN Result(EmptyDf, {"error_std"})
       ELSE Result(Frame([i \in 1..Len(filtered) |->
                      [Tijdstip |-> StdTijdstip(filtered[i]), Volume |-> volumes[i]]]), {})

\* ------------------------------------------------------------------------
\* process_amr_file: the AMR interval-block file (rows after the skipped lines)
\* ------------------------------------------------------------------------
value_cols == AmrFirstValueCol..(AmrFirstValueCol + AmrValueCount - 1)

\* pd.to_datetime(..., format='%d%m%Y %H:%M', errors='coerce')
ParseAmrStart(cell) ==
    IF Len(cell) = 5 /\ ValidDate(cell[1], cell[2], cell[3]) /\ ValidTime(cell[4], cell[5])
    THEN Timestamp(cell[3], cell[2], cell[1], cell[4], cell[5])
    ELSE NaN

\* pd.to_numeric(str.replace(',', '.'), errors='coerce').fillna(0); the cells of the
\* model are whole numbers or not numbers at all
AmrVolume(cell) ==
    LET v == IntOfText(ReplaceChar(cell, ",", ".")) IN IF v = NaN THEN 0 ELSE v

\* (interval_index - 10 + 1) * 15
\* the offset counted from the start of the interval instead of its end
time_offset_from_start(interval_index) == (interval_index - AmrFirstValueCol) * QuarterMinutes

time_offset_minutes(interval_index) == (interval_index - AmrFirstValueCol + 1) * QuarterMinutes

\* pd.melt: one block of rows per value column, in column order
Melt(kept) ==
    Frame([n \in 1..(AmrValueCount * Len(kept)) |->
       LET col == AmrFirstValueCol + (n - 1) \div Len(kept)
           row == kept[((n - 1) % Len(kept)) + 1]
       IN [Tijdstip |-> ParseAmrStart(row.start) + time_offset_minutes(col),
           Volume |-> AmrVolume(row.cells[col])]])

process_amr_file(file_upload) ==
    IF IsNone(file_upload) THEN Result(EmptyDf, {})
    ELSE
    LET f == Get(file_upload)
        df_kwt == SelectSeq(f.rows, LAMBDA r : r.indicator = "KWT")
        kept == SelectSeq(df_kwt, LAMBDA r : ParseAmrStart(r.start) # NaN)
    IN IF f.ncols <= AmrIndicatorCol THEN Result(EmptyDf, {"error_amr"})
       ELSE IF df_kwt = <<>> THEN Result(EmptyDf, {"warning_no_kwt"})
       ELSE IF f.ncols < AmrFirstValueCol + AmrValueCount THEN Result(EmptyDf, {"error_amr"})
       ELSE Result(Melt(kept), {})

\* ------------------------------------------------------------------------
\* process_belpex_file: the bundled day-ahead price file
\* ------------------------------------------------------------------------
NumberChars == Digits \cup {","}

\* where the pattern (-?[\d,]+) can start in s, 0 when nowhere
MatchStarts(s) ==
    {i \in 1..Len(s) : \/ s[i] \in NumberChars
                       \/ (s[i] = "-" /\ i < Len(s) /\ s[i + 1] \in NumberChars)}

RECURSIVE RunEnd(_, _)
\* the last index of the greedy run of [\d,] that starts at i
RunEnd(s, i) == IF i < Len(s) /\ s[i + 1] \in NumberChars THEN RunEnd(s, i + 1) ELSE i

\* Series.str.extract(r'(-?[\d,]+)', expand=False) of one cell: the first match, or <<>>
ExtractNumber(s) ==
    IF MatchStarts(s) = {} THEN <<>>
    ELSE LET i == CHOOSE k \in MatchStarts(s) : \A j \in MatchStarts(s) : k <= j
             first == IF s[i] = "-" THEN i + 1 ELSE i
         IN SubSeq(s, i, RunEnd(s, first))

MicroPerUnit == 1000000
FractionDigits == 6

RECURSIVE Pow10(_)
Pow10(n) == IF n = 0 THEN 1 ELSE 10 * Pow10(n - 1)

\* pd.to_numeric(text, errors='coerce') of [-]digits[.digits], in millionths; NaN otherwise
MicroOfText(s) ==
    LET neg == Len(s) >= 1 /\ s[1] = "-"
        body == IF neg THEN Tail(s) ELSE s
        dots == {i \in 1..Len(body) : body[i] = "."}
        dot == IF dots = {} THEN Len(body) + 1 ELSE CHOOSE i \in dots : TRUE
        whole == SubSeq(body, 1, dot - 1)
        frac == SubSeq(body, dot + 1, Len(body))
        ok == /\ Cardinality(dots) <= 1 /\ AllDigits(whole) /\ AllDigits(frac)
              /\ Len(whole) + Len(frac) >= 1 /\ Len(frac) <= FractionDigits
        magnitude == DigitsValue(whole) * MicroPerUnit
                       + DigitsValue(frac) * Pow10(FractionDigits - Len(frac))
    IN IF s = <<>> \/ ~ok THEN NaN ELSE IF neg THEN -magnitude ELSE magnitude

\* read_csv leaves a cell as text unless it is a plain number with a decimal point
IsPlainNumber(s) == s # <<>> /\ MicroOfText(s) # NaN

\* clean_price / 1000 of one Euro cell: millionths of EUR per kWh, or NaN
BelpexPrice(euro) ==
    LET numeric_text == ExtractNumber(euro)
        clean_price == MicroOfText(ReplaceChar(numeric_text, ",", "."))
    IN IF clean_price = NaN THEN NaN ELSE clean_price \div PriceDivisor

BelpexTijdstip(date) ==
    IF Len(date) = 5 THEN ParseDayFirst(SubSeq(date, 1, 3), SubSeq(date, 4, 5)) ELSE NaN

\* belpex_path is None when BelpexFilter.csv is not there
process_belpex_file(belpex_path) ==
    IF IsNone(belpex_path) THEN Result(EmptyDf, {"error_belpex_not_found"})
    ELSE
    LET f == Get(belpex_path)
        rows == f.rows
    IN IF "Date" \notin f.columns THEN Result(EmptyDf, {"error_belpex"})
       ELSE IF \E i \in 1..Len(rows) : BelpexTijdstip(rows[i]["Date"]) = NaN
            THEN Result(EmptyDf, {"error_belpex"})
       ELSE IF "Euro" \notin f.columns THEN Result(EmptyDf, {"error_belpex"})
       ELSE IF \A i \in 1..Len(rows) : IsPlainNumber(rows[i]["Euro"])
            THEN Result(EmptyDf, {"error_belpex"})
       ELSE Result(Frame([i \in 1..Len(rows) |->
                      [Tijdstip_uur |-> BelpexTijdstip(rows[i]["Date"]),
                       BELPEX_EUR_KWH |-> BelpexPrice(rows[i]["Euro"])]]), {})

\* ------------------------------------------------------------------------
\* process_pvgis_hybrid: one TMY fetch with urllib3's Retry, then the local
\* simulation per segment and the resampling to quarter hours
\* ------------------------------------------------------------------------
status_forcelist == {500, 502, 503, 504}

Status(code) == [kind |-> "status", code |-> code]
ConnectError == [kind |-> "connect_error", code |-> 0]
ReadTimeout == [kind |-> "read_timeout", code |-> 0]

\* Retry.increment is called for a connection error, a read error (GET is
\* idempotent) and a response whose status is in status_forcelist
IsRetried(outcome) ==
    \/ outcome.kind \in {"connect_error", "read_timeout"}
    \/ (outcome.kind = "status" /\ outcome.code \in status_forcelist)

\* Response.raise_for_status()
IsHttpError(outcome) == outcome.kind = "status" /\ outcome.code >= 400

RECURSIVE SessionGet(_, _, _)
\* session.get: `total` retries are left before attempt i; the outcomes of the
\* requests sent, in order. Retry gives up when total would fall below 0.
SessionGet(outcomes, i, total) ==
    IF IsRetried(outcomes[i]) /\ total - 1 >= 0
    THEN <<outcomes[i]>> \o SessionGet(outcomes, i + 1, total - 1)
    ELSE <<outcomes[i]>>

\* the request failed: retries exhausted, or raise_for_status raised
FetchFailed(log) == LET last == log[Len(log)] IN IsRetried(last) \/ IsHttpError(last)

\* mc.results.ac of one segment: pvlib's ModelChain is outside the repository;
\* the weather carries its AC power per kWp for every hour, scaled here by pdc0
RunModel(segment, weather) ==
    [h \in DOMAIN weather |-> IF weather[h] = NaN THEN NaN ELSE weather[h] * segment.kwp]

FillNa0(v) == IF v = NaN THEN 0 ELSE v

RECURSIVE SumSegments(_, _, _)
\* total_ac_power after the loop over the first n segments
SumSegments(segments, n, weather) ==
    IF n = 0 THEN [h \in DOMAIN weather |-> 0]
    ELSE LET before == SumSegments(segments, n - 1, weather)
             ac == RunModel(segments[n], weather)
         IN [h \in DOMAIN weather |-> before[h] + FillNa0(ac[h])]

SetMin(S) == CHOOSE x \in S : \A y \in S : x <= y
SetMax(S) == CHOOSE x \in S : \A y \in S : y <= x

\* resample('15min').ffill() / 4 of an hourly series given as a function on its index:
\* one row per quarter hour from the first to the last index value
Resample(hourly) ==
    LET idx == DOMAIN hourly
        first == SetMin(idx)
        n == (SetMax(idx) - first) \div QuarterMinutes + 1
        at(t) == hourly[SetMax({h \in idx : h <= t})]
    IN Frame([k \in 1..n |->
          LET t == first + (k - 1) * QuarterMinutes
          IN [Tijdstip |-> t, PVGIS_kwh |-> at(t) \div QuartersPerHour]])

\* what one uncached call returns: the frame, the messages, the requests sent and
\* total_energy_kwh_hourly (None when the simulation was not reached)
process_pvgis_hybrid(segments, outcomes, tmy) ==
    LET log == SessionGet(outcomes, 1, RetryTotal)
        weather == Get(tmy)
        total_ac_power == SumSegments(segments, Len(segments), weather)
        total_energy_kwh_hourly == [h \in DOMAIN weather |-> total_ac_power[h] \div WattPerKw]
    IN IF segments = <<>>
       THEN [df |-> EmptyDf, msgs |-> {}, log |-> <<>>, hourly |-> None]
       ELSE IF FetchFailed(log)
       THEN [df |-> EmptyDf, msgs |-> {"error_pvgis_fetch"}, log |-> log, hourly |-> None]
       ELSE IF IsNone(tmy)
       THEN [df |-> EmptyDf, msgs |-> {"error_pvgis_tmy"}, log |-> log, hourly |-> None]
       ELSE [df |-> Resample(total_energy_kwh_hourly), msgs |-> {"info_weather"},
             log |-> log, hourly |-> Some(total_energy_kwh_hourly)]

\* ------------------------------------------------------------------------
\* pandas operations used by the merge block
\* ------------------------------------------------------------------------
Columns(df) == DOMAIN df[1]
Drop(row, cols) == [c \in DOMAIN row \ cols |-> row[c]]
Rename(row, old, new) ==
    IF old \in DOMAIN row
    THEN [c \in (DOMAIN row \ {old}) \cup {new} |-> IF c = new THEN row[old] ELSE row[c]]
    ELSE row
RenameAll(df, old, new) == Frame([i \in 1..Len(df) |-> Rename(df[i], old, new) @@ <<>>])
NaNRow(cols) == [c \in cols |-> NaN]

\* df.sort_values(c): ascending; rows with equal keys stay in their order
sort_values(df, c) ==
    LET n == Len(df)
        key == Frame([i \in 1..n |-> df[i][c]])
        place == Frame([i \in 1..n |->
                    Cardinality({j \in 1..n : key[j] < key[i] \/ (key[j] = key[i] /\ j < i)}) + 1])
        from == [p \in 1..n |-> CHOOSE i \in 1..n : place[i] = p]
    IN Frame([p \in 1..n |-> df[from[p]]])

\* the elements of a set of numbers in ascending order
SortedSeq(S) ==
    LET below == [x \in S |-> Cardinality({y \in S : y < x})] @@ <<>>
    IN Frame([p \in 1..Cardinality(S) |-> CHOOSE x \in S : below[x] = p - 1])

\* the rows one key contributes to a join: every pairing of the left rows with the
\* right rows of that key, left-major; NaN on the side that has no row
JoinRows(ls, rs, lcols, rcols, on) ==
    IF ls = <<>> THEN [j \in 1..Len(rs) |-> NaNRow(lcols \ {on}) @@ rs[j]]
    ELSE IF rs = <<>> THEN [i \in 1..Len(ls) |-> ls[i] @@ NaNRow(rcols \ {on})]
    ELSE [n \in 1..(Len(ls) * Len(rs)) |->
            ls[((n - 1) \div Len(rs)) + 1] @@ Drop(rs[((n - 1) % Len(rs)) + 1], {on})]

RECURSIVE OuterBlocks(_, _, _, _, _, _)
\* the rows of keys[lo..hi], in key order
OuterBlocks(keys, lo, hi, left, right, on) ==
    IF lo = hi
    THEN JoinRows(SelectSeq(left, LAMBDA r : r[on] = keys[lo]),
                  SelectSeq(right, LAMBDA r : r[on] = keys[lo]),
                  Columns(left), Columns(right), on)
    ELSE LET mid == (lo + hi) \div 2
         IN OuterBlocks(keys, lo, mid, left, right, on)
              \o OuterBlocks(keys, mid + 1, hi, left, right, on)

\* pd.merge(left, right, on=on, how='outer') of two non-empty frames: keys in
\* ascending order
MergeOuter(left, right, on) ==
    LET keys == SortedSeq(ColumnSet(left, on) \cup ColumnSet(right, on))
    IN OuterBlocks(keys, 1, Len(keys), left, right, on)

RECURSIVE LeftBlocks(_, _, _, _, _)
\* the rows of left[lo..hi], in left order
LeftBlocks(lo, hi, left, right, on) ==
    IF lo = hi
    THEN JoinRows(<<left[lo]>>, SelectSeq(right, LAMBDA r : r[on] = left[lo][on]),
                  Columns(left), Columns(right), on)
    ELSE LET mid == (lo + hi) \div 2
         IN LeftBlocks(lo, mid, left, right, on) \o LeftBlocks(mid + 1, hi, left, right, on)

\* pd.merge(left, right, on=on, how='left') of two non-empty frames: left order kept
MergeLeft(left, right, on) == LeftBlocks(1, Len(left), left, right, on)

\* df.fillna(0)
fillna0(df) == Frame([i \in 1..Len(df) |-> [c \in DOMAIN df[i] |-> FillNa0(df[i][c])] @@ <<>>])

\* ------------------------------------------------------------------------
\* The merge block of the process button
\* ------------------------------------------------------------------------
QuantityColumns == <<"import_kwh", "injection_kwh", "pv_kwh", "BELPEX">>

\* dataframes: the non-empty parsed frames, Volume renamed to the slot's column
Dataframes(df_import, df_injectie, df_pv) ==
    (IF IsEmpty(df_import) THEN <<>> ELSE <<RenameAll(df_import, "Volume", "import_kwh")>>)
    \o (IF IsEmpty(df_injectie) THEN <<>> ELSE <<RenameAll(df_injectie, "Volume", "injection_kwh")>>)
    \o (IF IsEmpty(df_pv) THEN <<>> ELSE <<RenameAll(df_pv, "Volume", "pv_kwh")>>)

RECURSIVE MergeAll(_, _)
\* finale_df after the loop over dataframes[1:], for the first n frames
MergeAll(dataframes, n) ==
    IF n = 1 THEN dataframes[1]
    ELSE MergeOuter(MergeAll(dataframes, n - 1), dataframes[n], "Tijdstip")

\* the price join: on the row's hour against the price row's own timestamp
JoinBelpex(finale_df, df_belpex) ==
    IF IsEmpty(df_belpex) THEN finale_df
    ELSE LET keyed == Frame([i \in 1..Len(finale_df) |->
                         finale_df[i] @@ [Tijdstip_uur |-> FloorHour(finale_df[i]["Tijdstip"])]])
             merged == MergeLeft(keyed, df_belpex, "Tijdstip_uur")
         IN Frame([i \in 1..Len(merged) |-> Drop(merged[i], {"Tijdstip_uur"}) @@ <<>>])

\* missing quantity columns are added with 0
AddMissing(row) ==
    row @@ [c \in {QuantityColumns[k] : k \in 1..Len(QuantityColumns)} \ DOMAIN row |-> 0]

\* finale_df as it stands after sort_values('Date')
FinaleDf(dataframes, df_belpex) ==
    LET merged == MergeAll(dataframes, Len(dataframes))
        priced == JoinBelpex(merged, df_belpex)
        renamed == RenameAll(RenameAll(priced, "Tijdstip", "Date"), "BELPEX_EUR_KWH", "BELPEX")
        complete == Frame([i \in 1..Len(renamed) |-> AddMissing(renamed[i])])
    IN sort_values(fillna0(complete), "Date")

\* combined_df: the estimate joined on the month-day hour:minute key when it is there
CombinedDf(finale_df, pvgis_data) ==
    IF IsEmpty(pvgis_data) THEN finale_df
    ELSE LET right == Frame([j \in 1..Len(pvgis_data) |->
                         [match_key |-> MatchKey(pvgis_data[j]["Tijdstip"]),
                          PVGIS_kwh |-> pvgis_data[j]["PVGIS_kwh"]]])
             left == Frame([i \in 1..Len(finale_df) |->
                        finale_df[i] @@ [match_key |-> MatchKey(finale_df[i]["Date"])]])
             merged == MergeLeft(left, right, "match_key")
         IN Frame([i \in 1..Len(merged) |->
               LET row == Drop(merged[i], {"match_key"}) @@ <<>>
               IN [row EXCEPT !["PVGIS_kwh"] = FillNa0(@)]])

\* ------------------------------------------------------------------------
\* The date-range filter and the two exports
\* ------------------------------------------------------------------------
min_date(df) == SetMin({DateOf(df[i]["Date"]) : i \in 1..Len(df)})
max_date(df) == SetMax({DateOf(df[i]["Date"]) : i \in 1..Len(df)})

\* df.loc[mask]
FilterRange(df, start, end) ==
    SelectSeq(df, LAMBDA r : DateOf(r["Date"]) >= start /\ DateOf(r["Date"]) <= end)

\* to_excel: the frame itself on the sheet 'Data'
to_excel(df) == df

RECURSIVE ColumnSum(_, _, _, _)
\* data_df[c].sum() over the rows lo..hi
ColumnSum(df, c, lo, hi) ==
    IF lo > hi THEN 0
    ELSE IF lo = hi THEN df[lo][c]
    ELSE LET mid == (lo + hi) \div 2
         IN ColumnSum(df, c, lo, mid) + ColumnSum(df, c, mid + 1, hi)

\* str(x).replace('.', ','): the number printed with a decimal comma
FormatVolume(x) == [number |-> x, decimal |-> ","]

\* the sheet made whenever the column exists, whatever its sum
transform_without_sum_check(data_df, kwh_column_name, register_name) ==
    IF ~HasColumn(data_df, kwh_column_name)
    THEN None
    ELSE Some(Frame([i \in 1..Len(data_df) |->
           LET date == data_df[i]["Date"]
               end_datetime == date + QuarterMinutes
           IN [van_datum |-> FormatDate(date), van_tijdstip |-> FormatTime(date),
               tot_datum |-> FormatDate(end_datetime), tot_tijdstip |-> FormatTime(end_datetime),
               Volume |-> FormatVolume(data_df[i][kwh_column_name]),
               Eenheid |-> "KWH", Register |-> register_name]]))

\* transform_for_new_format: None, or the sheet in the standard meter-file shape
transform_for_new_format(data_df, kwh_column_name, register_name) ==
    IF ~HasColumn(data_df, kwh_column_name)
       \/ ColumnSum(data_df, kwh_column_name, 1, Len(data_df)) = 0
    THEN None
    ELSE Some(Frame([i \in 1..Len(data_df) |->
           LET date == data_df[i]["Date"]
               end_datetime == date + QuarterMinutes
           IN [van_datum |-> FormatDate(date), van_tijdstip |-> FormatTime(date),
               tot_datum |-> FormatDate(end_datetime), tot_tijdstip |-> FormatTime(end_datetime),
               Volume |-> FormatVolume(data_df[i][kwh_column_name]),
               Eenheid |-> "KWH", Register |-> register_name]]))

SheetColumn ==
    [Verbruik |-> "import_kwh", Injectie |-> "injection_kwh",
     PV_kwh |-> "pv_kwh", PVGIS_kwh |-> "PVGIS_kwh"]
SheetRegister ==
    [Verbruik |-> "afname actief", Injectie |-> "injectie actief",
     PV_kwh |-> "Hulpverbruik Actief", PVGIS_kwh |-> "PVGIS"]

\* to_multi_sheet_excel: the sheets written, by sheet name
to_multi_sheet_excel(df) ==
    LET made == {n \in DOMAIN SheetColumn :
                   ~IsNone(transform_for_new_format(df, SheetColumn[n], SheetRegister[n]))}
    IN [n \in made |-> Get(transform_for_new_format(df, SheetColumn[n], SheetRegister[n]))]

\* the download buttons of one run of the script. The writer raises when no sheet
\* was written, so the split button is then not reached.
Downloads(filtered, start, end) ==
    IF IsNone(filtered) THEN None
    ELSE LET sheets == to_multi_sheet_excel(Get(filtered))
             name == <<IsoDate(start), IsoDate(end)>>
         IN Some([standaard |-> [file_name |-> name, data |-> to_excel(Get(filtered))],
                  gesplitst |-> IF DOMAIN sheets = {} THEN None
                                ELSE Some([file_name |-> name, data |-> sheets])])

\* ------------------------------------------------------------------------
\* State
\* ------------------------------------------------------------------------
VARIABLES
    file_type,              \* st.radio: the kind of meter file
    file_import,            \* st.file_uploader 1, None or the file
    file_injectie,          \* st.file_uploader 2
    file_pv,                \* st.file_uploader 3
    pvgis_segments_hybrid,  \* the PV segments of the form
    belpex_file,            \* BelpexFilter.csv beside the script, None when absent
    tmy_outcomes,           \* what the PVGIS server answers to the 1st, 2nd, ... request
    tmy_weather,            \* the TMY data read_pvgis_tmy returns, None when it raises
    df_import,              \* the locals of the last run of the process block
    df_injectie,
    df_pv,
    df_belpex,
    pvgis_data,
    total_energy_kwh_hourly,
    http_log,               \* the requests the last run sent, with their outcomes
    cache,                  \* st.cache_data of process_pvgis_hybrid
    combined_df,            \* st.session_state.combined_df
    filtered_df,            \* st.session_state.filtered_df
    start_date,             \* st.date_input "Startdag", None while not shown
    end_date,               \* st.date_input "Einddag"
    downloads,              \* the download buttons on the page
    messages                \* st.error / st.warning / st.info of the last run

inputs == <<file_type, file_import, file_injectie, file_pv, pvgis_segments_hybrid,
            belpex_file, tmy_outcomes, tmy_weather>>
locals == <<df_import, df_injectie, df_pv, df_belpex, pvgis_data,
            total_energy_kwh_hourly, http_log>>
session == <<cache, combined_df, filtered_df, start_date, end_date, downloads, messages>>
vars == <<inputs, locals, session>>

FileTypeStd == "Normale CSV (Fluvius)"
FileTypeAmr == "AMR Bestand"

\* the three parser calls of the process block
ParseSlot(file, register_type) ==
    IF file_type = FileTypeStd THEN process_energy_file(file, register_type)
    ELSE process_amr_file(file)

\* process_pvgis_hybrid behind st.cache_data: a stored return value is replayed
\* without running the function
CachedEstimate ==
    IF pvgis_segments_hybrid \in DOMAIN cache
    THEN [df |-> cache[pvgis_segments_hybrid].df, msgs |-> cache[pvgis_segments_hybrid].msgs,
          log |-> <<>>, hourly |-> None]
    ELSE process_pvgis_hybrid(pvgis_segments_hybrid, tmy_outcomes, tmy_weather)

\* the date inputs after a run that shows them: a widget whose bounds and default
\* are those of the run before keeps its value, any other starts at its default
DateWidget(old_df, new_df, old_value, default) ==
    IF ~IsNone(old_df) /\ min_date(Get(old_df)) = min_date(new_df)
       /\ max_date(Get(old_df)) = max_date(new_df)
    THEN old_value
    ELSE Some(default)

Init ==
    /\ df_import = EmptyDf /\ df_injectie = EmptyDf /\ df_pv = EmptyDf
    /\ df_belpex = EmptyDf /\ pvgis_data = EmptyDf
    /\ total_energy_kwh_hourly = None
    /\ http_log = <<>>
    /\ cache = <<>>
    /\ combined_df = None /\ filtered_df = None
    /\ start_date = None /\ end_date = None
    /\ downloads = None
    /\ messages = {}

\* ------------------------------------------------------------------------
\* "Verwerk bestanden en simuleer PV-productie"
\* ------------------------------------------------------------------------
ProcessNoFile ==
    /\ IsNone(file_import) /\ IsNone(file_injectie) /\ IsNone(file_pv)
    /\ messages' = {"warning_no_file"}
    /\ df_import' = EmptyDf /\ df_injectie' = EmptyDf /\ df_pv' = EmptyDf
    /\ df_belpex' = EmptyDf /\ pvgis_data' = EmptyDf
    /\ total_energy_kwh_hourly' = None /\ http_log' = <<>>
    /\ combined_df' = None /\ filtered_df' = None
    /\ start_date' = None /\ end_date' = None /\ downloads' = None
    /\ UNCHANGED <<inputs, cache>>

ProcessFiles ==
    /\ ~(IsNone(file_import) /\ IsNone(file_injectie) /\ IsNone(file_pv))
    /\ LET imp == ParseSlot(file_import, "Afname Actief")
           inj == ParseSlot(file_injectie, "Injectie Actief")
           pv == ParseSlot(file_pv, "Hulpverbruik Actief")
           dataframes == Dataframes(imp.df, inj.df, pv.df)
           parse_msgs == imp.msgs \cup inj.msgs \cup pv.msgs
       IN /\ df_import' = imp.df /\ df_injectie' = inj.df /\ df_pv' = pv.df
          /\ filtered_df' = None
          /\ downloads' = None
          /\ IF dataframes = <<>>
             THEN /\ messages' = parse_msgs \cup {"error_no_valid_file"}
                  /\ df_belpex' = EmptyDf /\ pvgis_data' = EmptyDf
                  /\ total_energy_kwh_hourly' = None /\ http_log' = <<>>
                  /\ combined_df' = None
                  /\ start_date' = None /\ end_date' = None
                  /\ UNCHANGED cache
             ELSE LET bel == process_belpex_file(belpex_file)
                      finale_df == FinaleDf(dataframes, bel.df)
                      est == CachedEstimate
                      combined == CombinedDf(finale_df, est.df)
                  IN /\ df_belpex' = bel.df
                     /\ pvgis_data' = est.df
                     /\ total_energy_kwh_hourly' = est.hourly
                     /\ http_log' = est.log
                     /\ cache' = IF pvgis_segments_hybrid = <<>> THEN cache
                                 ELSE (pvgis_segments_hybrid :> [df |-> est.df, msgs |-> est.msgs])
                                      @@ cache
                     /\ messages' = parse_msgs \cup bel.msgs \cup est.msgs
                                      \cup (IF IsEmpty(bel.df) THEN {"error_no_belpex"}
                                            ELSE {"success_belpex"})
                                      \cup {"success_files"}
                                      \cup (IF IsEmpty(est.df) THEN {} ELSE {"success_pv"})
                     /\ combined_df' = Some(combined)
                     /\ start_date' = DateWidget(combined_df, combined, start_date,
                                                 min_date(combined))
                     /\ end_date' = DateWidget(combined_df, combined, end_date,
                                               max_date(combined))
    /\ UNCHANGED inputs

Process == ProcessNoFile \/ ProcessFiles

\* ------------------------------------------------------------------------
\* The date inputs and "Datum bereik bevestigen"
\* ------------------------------------------------------------------------
DateChoices == min_date(Get(combined_df))..max_date(Get(combined_df))

SetStartDate ==
    /\ ~IsNone(combined_df)
    /\ \E d \in DateChoices :
         /\ Some(d) # start_date
         /\ start_date' = Some(d)
         /\ downloads' = Downloads(filtered_df, d, Get(end_date))
    /\ messages' = {}
    /\ UNCHANGED <<inputs, locals, cache, combined_df, filtered_df, end_date>>

SetEndDate ==
    /\ ~IsNone(combined_df)
    /\ \E d \in DateChoices :
         /\ Some(d) # end_date
         /\ end_date' = Some(d)
         /\ downloads' = Downloads(filtered_df, Get(start_date), d)
    /\ messages' = {}
    /\ UNCHANGED <<inputs, locals, cache, combined_df, filtered_df, start_date>>

ConfirmRange ==
    /\ ~IsNone(combined_df)
    /\ IF Get(start_date) > Get(end_date)
       THEN /\ messages' = {"error_start_after_end"}
            /\ filtered_df' = None
       ELSE /\ messages' = {}
            /\ filtered_df' = Some(FilterRange(Get(combined_df), Get(start_date), Get(end_date)))
    /\ downloads' = Downloads(filtered_df', Get(start_date), Get(end_date))
    /\ UNCHANGED <<inputs, locals, cache, combined_df, start_date, end_date>>

\* ------------------------------------------------------------------------
\* Input universes
\* ------------------------------------------------------------------------
SeqsUpTo(S, n) == UNION {[1..m -> S] : m \in 1..n}

SlotNames == {"import", "injectie", "pv"}
OutcomeIndex == 1..(RetryTotal + 1)
AlwaysOk == [i \in OutcomeIndex |-> Status(200)]

\* one form and environment: the file F uploaded in the slots of `slots`
Form(ft, F, slots, segments, belpex, outcomes, weather) ==
    [file_type |-> ft,
     file_import |-> IF "import" \in slots THEN Some(F) ELSE None,
     file_injectie |-> IF "injectie" \in slots THEN Some(F) ELSE None,
     file_pv |-> IF "pv" \in slots THEN Some(F) ELSE None,
     pvgis_segments_hybrid |-> segments,
     belpex_file |-> belpex, tmy_outcomes |-> outcomes, tmy_weather |-> weather]

\* the start moment of slot k: 15/06/2023 and 16/06/2023 in turn, from 10:15 on
SlotDatum(k) == <<15 + (k % 2), 6, 2023>>
SlotMinutes(k) == 10 * MinutesPerHour + QuarterMinutes * (1 + (k \div 2))
SlotTijdstip(k) == <<SlotMinutes(k) \div MinutesPerHour, SlotMinutes(k) % MinutesPerHour>>

StdRow(datum, tijdstip, register, volume) ==
    ("Van (datum)" :> datum) @@ ("Van (tijdstip)" :> tijdstip)
      @@ ("Register" :> register) @@ ("Volume" :> volume)

StdRows(registers, volumes) ==
    {StdRow(SlotDatum(k), SlotTijdstip(k), r, v) : k \in 0..MaxSlot, r \in registers, v \in volumes}

StdFile(columns, rows) == [columns |-> columns, rows |-> rows]

StdFiles(registers, volumes) ==
    {StdFile(StdColumns, rows) : rows \in SeqsUpTo(StdRows(registers, volumes), MaxRows)}

\* files the standard parser rejects: a column missing, a volume that is no number,
\* a date that is none
BadStdFiles ==
    {StdFile(StdColumns \ {"Register"}, <<StdRow(SlotDatum(0), SlotTijdstip(0), "Afname Actief", <<"1">>)>>),
     StdFile(StdColumns, <<StdRow(SlotDatum(0), SlotTijdstip(0), "Afname Actief", <<"x">>)>>),
     StdFile(StdColumns, <<StdRow(<<31, 2, 2023>>, SlotTijdstip(0), "Injectie Actief", <<"1">>)>>)}

BaseStdFile ==
    StdFile(StdColumns,
            <<StdRow(SlotDatum(0), SlotTijdstip(0), "Afname Actief", <<"1">>),
              StdRow(SlotDatum(1), SlotTijdstip(1), "Afname Actief", <<"2">>)>>)

EuroPriced == <<"4", "5", ",", "6", "7", " ", "E", "U", "R", "/", "M", "W", "h">>
EuroNegative == <<"-", "3", ",", "1", "0">>
EuroMissing == <<"n", "/", "a">>
EuroPlain == <<"4", "5">>

\* price rows on the hour of slot 0 and a quarter past it
PriceDates == {<<15, 6, 2023, 10, 0>>, <<15, 6, 2023, 10, 15>>}
PriceRows(euros) == {[Date |-> d, Euro |-> e] : d \in PriceDates, e \in euros}
PriceFile(columns, rows) == Some([columns |-> columns, rows |-> rows])

BelpexFiles ==
    {None}
    \cup {PriceFile({"Date", "Euro"}, rows) :
            rows \in SeqsUpTo(PriceRows({EuroPriced, EuroNegative, EuroMissing}), MaxPriceRows)}
    \cup {PriceFile({"Date"}, <<[Date |-> <<15, 6, 2023, 10, 0>>, Euro |-> EuroPriced]>>),
          PriceFile({"Date", "Euro"}, <<[Date |-> <<15, 6, 2023, 10, 0>>, Euro |-> EuroPlain]>>),
          PriceFile({"Date", "Euro"}, <<[Date |-> <<15, 13, 2023, 10, 0>>, Euro |-> EuroPriced]>>)}

BaseBelpex == PriceFile({"Date", "Euro"}, <<[Date |-> <<15, 6, 2023, 10, 0>>, Euro |-> EuroPriced]>>)

\* the defaults of the segment inputs: 4.0 kWp, 35 degrees, azimuth 0
DefaultSegment == [kwp |-> 4, slope |-> 35, azimuth |-> 0]
SegmentLists == {<<>>, <<DefaultSegment>>, <<DefaultSegment, DefaultSegment>>}

\* TMY hours from 15/06/2020 10:00 on (the TMY years are not the meter's), the AC
\* power per kWp of an hour either missing or 1000 W times the hour's rank
PvHour(k) == Timestamp(2020, 6, 15, 10, 0) + k * MinutesPerHour
Weathers ==
    {None} \cup
    UNION {{Some([h \in {PvHour(k) : k \in ks} |->
                    IF h \in dark THEN NaN
                    ELSE WattPerKw * (1 + (h - PvHour(0)) \div MinutesPerHour)]) :
              dark \in SUBSET {PvHour(k) : k \in ks}} :
           ks \in SUBSET (0..MaxPvHour) \ {{}}}

BaseWeather == Some([h \in {PvHour(0), PvHour(1)} |-> WattPerKw])

\* AMR rows: the row at position i of a file starts on 15/06/2023 + (i - 1) days at
\* 00:00; its cells are whole numbers, the last one not a number
AmrCells == [c \in value_cols |-> IF c = AmrFirstValueCol THEN <<"2">>
                                   ELSE IF c = AmrFirstValueCol + AmrValueCount - 1 THEN <<"x">>
                                   ELSE <<"1">>]
AmrVariants == {"kwt", "other_indicator", "bad_start"}
AmrRow(i, variant) ==
    [start |-> IF variant = "bad_start" THEN <<31, 2, 2023, 0, 0>> ELSE <<14 + i, 6, 2023, 0, 0>>,
     indicator |-> IF variant = "other_indicator" THEN "KWH" ELSE "KWT",
     cells |-> AmrCells]
AmrWidth == 106     \* fields of a well-formed AMR row
AmrFiles ==
    {[ncols |-> AmrWidth, rows |-> [i \in 1..Len(v) |-> AmrRow(i, v[i])]] :
        v \in SeqsUpTo(AmrVariants, MaxAmrRows)}
    \cup {[ncols |-> AmrWidth - 1, rows |-> <<AmrRow(1, "kwt")>>]}

\* ------------------------------------------------------------------------
\* Specifications: the same page under different forms and environments
\* ------------------------------------------------------------------------
InitForm(forms) ==
    /\ \E form \in forms :
         /\ file_type = form.file_type
         /\ file_import = form.file_import
         /\ file_injectie = form.file_injectie
         /\ file_pv = form.file_pv
         /\ pvgis_segments_hybrid = form.pvgis_segments_hybrid
         /\ belpex_file = form.belpex_file
         /\ tmy_outcomes = form.tmy_outcomes
         /\ tmy_weather = form.tmy_weather
    /\ Init

\* the session: a few forms, which the user may change between runs
OtherStdFile ==
    StdFile(StdColumns, <<StdRow(SlotDatum(1), SlotTijdstip(1), "Afname Actief", <<"3">>)>>)
SessionForms ==
    {Form(FileTypeStd, F, slots, segments, BaseBelpex, AlwaysOk, BaseWeather) :
        F \in {BaseStdFile, OtherStdFile}, slots \in {{}, {"import"}},
        segments \in {<<>>, <<DefaultSegment>>}}

\* a change of the uploads or of the segment inputs: the script reruns with no
\* button pressed
ChangeForm ==
    /\ \E form \in SessionForms :
         /\ <<form.file_import, form.pvgis_segments_hybrid>> # <<file_import, pvgis_segments_hybrid>>
         /\ file_import' = form.file_import
         /\ pvgis_segments_hybrid' = form.pvgis_segments_hybrid
    /\ messages' = {}
    /\ UNCHANGED <<file_type, file_injectie, file_pv, belpex_file, tmy_outcomes, tmy_weather,
                   locals, cache, combined_df, filtered_df, start_date, end_date, downloads>>

SessionInit == InitForm(SessionForms)
Next == Process \/ ChangeForm \/ SetStartDate \/ SetEndDate \/ ConfirmRange
Spec == SessionInit /\ [][Next]_vars

\* one form per behaviour
NextFixed == Process \/ SetStartDate \/ SetEndDate \/ ConfirmRange

AllRegisters == {"Afname Actief", "Injectie Actief", "Hulpverbruik Actief"}
FilesForms ==
    {Form(FileTypeStd, F, slots, <<>>, BaseBelpex, AlwaysOk, None) :
        F \in StdFiles(AllRegisters, {<<"1">>}) \cup BadStdFiles, slots \in SUBSET SlotNames}
    \cup {Form(FileTypeStd, BaseStdFile, {"import"}, <<>>, belpex, AlwaysOk, None) :
            belpex \in BelpexFiles}
    \cup {Form(FileTypeStd, BaseStdFile, {}, <<>>, BaseBelpex, AlwaysOk, None)}
FilesInit == InitForm(FilesForms)
SpecFiles == FilesInit /\ [][NextFixed]_vars

\* every file shape as the import file, and the one-row file in every choice of slots
BaseAmrFile == [ncols |-> AmrWidth, rows |-> <<AmrRow(1, "kwt")>>]
AmrForms ==
    {Form(FileTypeAmr, F, {"import"}, <<>>, BaseBelpex, AlwaysOk, None) : F \in AmrFiles}
    \cup {Form(FileTypeAmr, BaseAmrFile, slots, <<>>, BaseBelpex, AlwaysOk, None) :
            slots \in SUBSET SlotNames}
AmrInit == InitForm(AmrForms)
SpecAmr == AmrInit /\ [][NextFixed]_vars

AlwaysFails == [i \in OutcomeIndex |-> Status(503)]
PvForms ==
    {Form(FileTypeStd, F, slots, <<DefaultSegment>>, BaseBelpex, AlwaysOk, BaseWeather) :
        F \in {StdFile(StdColumns, rows) :
                 rows \in SeqsUpTo(StdRows({"Afname Actief"}, {<<"1">>, <<"-", "1">>})
                                     \cup StdRows({"Injectie Actief"}, {<<"1">>}), MaxRows)},
        slots \in {{}, {"import", "injectie"}}}
    \cup {Form(FileTypeStd, BaseStdFile, {"import"}, segments, None, outcomes, weather) :
            segments \in SegmentLists, outcomes \in {AlwaysOk, AlwaysFails}, weather \in Weathers}
PvInit == InitForm(PvForms)
SpecPv == PvInit /\ [][NextFixed]_vars

OutcomeKinds == {Status(200), Status(501), Status(503), ConnectError, ReadTimeout}
FetchForms ==
    {Form(FileTypeStd, BaseStdFile, {"import"}, segments, None, outcomes, BaseWeather) :
        segments \in SegmentLists \ {<<>>}, outcomes \in [OutcomeIndex -> OutcomeKinds]}
    \cup {Form(FileTypeStd, BaseStdFile, slots, <<>>, None, AlwaysOk, BaseWeather) :
            slots \in {{}, {"import"}}}
FetchInit == InitForm(FetchForms)
SpecFetch == FetchInit /\ [][NextFixed]_vars

\* ------------------------------------------------------------------------
\* Properties
\* ------------------------------------------------------------------------
Timestamps(df) == {df[i]["Tijdstip"] : i \in 1..Len(df)}
MeterTimestamps == Timestamps(df_import) \cup Timestamps(df_injectie) \cup Timestamps(df_pv)

NoDuplicateTimestamp(df) ==
    \A i \in 1..Len(df) : \A j \in 1..Len(df) : i # j => df[i]["Tijdstip"] # df[j]["Tijdstip"]

\* C1: after the merge of meter series that each have unique timestamps, the unified
\* table has exactly one row per distinct timestamp of the meter series, in ascending
\* timestamp order, whatever the price series and the PV estimate hold.
C1_OneRowPerTimestamp ==
    (/\ ~IsNone(combined_df)
     /\ NoDuplicateTimestamp(df_import) /\ NoDuplicateTimestamp(df_injectie)
     /\ NoDuplicateTimestamp(df_pv)) =>
        LET df == Get(combined_df)
        IN /\ {df[i]["Date"] : i \in 1..Len(df)} = MeterTimestamps
           /\ Len(df) = Cardinality(MeterTimestamps)
           /\ \A i \in 1..Len(df) : \A j \in 1..Len(df) : i < j => df[i]["Date"] < df[j]["Date"]

AllFiveColumns == {"import_kwh", "injection_kwh", "pv_kwh", "BELPEX", "PVGIS_kwh"}

\* C2: every row of the stored unified table has a defined, non-null value in all
\* five columns import_kwh, injection_kwh, pv_kwh, BELPEX and PVGIS_kwh.
C2_FiveColumnsDefined ==
    ~IsNone(combined_df) =>
        \A i \in 1..Len(Get(combined_df)) :
            \A c \in AllFiveColumns :
                c \in DOMAIN Get(combined_df)[i] /\ Get(combined_df)[i][c] # NaN

\* C3: a series returned by a meter parser never holds two samples with the same
\* timestamp.
C3_ParsedTimestampsUnique ==
    NoDuplicateTimestamp(df_import) /\ NoDuplicateTimestamp(df_injectie)
      /\ NoDuplicateTimestamp(df_pv)

\* month, day, hour and minute agree, whatever the years
SameCalendarSlot(t, u) ==
    /\ CivilFromDays(t \div MinutesPerDay)[2] = CivilFromDays(u \div MinutesPerDay)[2]
    /\ CivilFromDays(t \div MinutesPerDay)[3] = CivilFromDays(u \div MinutesPerDay)[3]
    /\ t % MinutesPerDay = u % MinutesPerDay

\* C4: with a PV estimate present, a unified row carries as PVGIS_kwh the value of an
\* estimate sample exactly when the two timestamps agree in month, day, hour and
\* minute; every such pair of meter timestamp and sample has its row; a row with no
\* such sample carries 0.
C4_YearAgnosticMatch ==
    (~IsNone(combined_df) /\ ~IsEmpty(pvgis_data)) =>
        LET df == Get(combined_df)
            slot(t) == {j \in 1..Len(pvgis_data) : SameCalendarSlot(pvgis_data[j]["Tijdstip"], t)}
        IN /\ \A i \in 1..Len(df) :
                /\ "PVGIS_kwh" \in DOMAIN df[i]
                /\ IF slot(df[i]["Date"]) = {} THEN df[i]["PVGIS_kwh"] = 0
                   ELSE \E j \in slot(df[i]["Date"]) :
                          df[i]["PVGIS_kwh"] = pvgis_data[j]["PVGIS_kwh"]
           /\ \A t \in MeterTimestamps : \A j \in slot(t) :
                \E i \in 1..Len(df) :
                    df[i]["Date"] = t /\ df[i]["PVGIS_kwh"] = pvgis_data[j]["PVGIS_kwh"]

\* a 2023 row gets the value of a 2020 sample of its calendar slot, and a row of
\* another day gets 0
C4_Witness ==
    /\ ~IsNone(combined_df) /\ ~IsEmpty(pvgis_data)
    /\ \E i \in 1..Len(Get(combined_df)) : \E j \in 1..Len(pvgis_data) :
         /\ Get(combined_df)[i]["Date"] = Timestamp(2023, 6, 15, 10, 15)
         /\ pvgis_data[j]["Tijdstip"] = Timestamp(2020, 6, 15, 10, 15)
         /\ Get(combined_df)[i]["PVGIS_kwh"] = pvgis_data[j]["PVGIS_kwh"]
         /\ pvgis_data[j]["PVGIS_kwh"] > 0
    /\ \E i \in 1..Len(Get(combined_df)) :
         /\ Get(combined_df)[i]["Date"] = Timestamp(2023, 6, 16, 10, 15)
         /\ Get(combined_df)[i]["PVGIS_kwh"] = 0

\* C5: every unified row carries as BELPEX the price of a price sample of its hour
\* (0 for a missing price), also when the sample is not exactly on the hour; a row
\* whose hour has no price sample carries 0.
C5_PriceOfTheHour ==
    ~IsNone(combined_df) =>
        LET df == Get(combined_df)
            hour(t) == {j \in 1..Len(df_belpex) :
                          df_belpex[j]["Tijdstip_uur"] \div MinutesPerHour = t \div MinutesPerHour}
        IN \A i \in 1..Len(df) :
             IF hour(df[i]["Date"]) = {} THEN df[i]["BELPEX"] = 0
             ELSE \E j \in hour(df[i]["Date"]) :
                    df[i]["BELPEX"] = FillNa0(df_belpex[j]["BELPEX_EUR_KWH"])

\* the rows of an AMR file the parse retains: indicator KWT and a valid day start
Retained(f) ==
    {r \in 1..Len(f.rows) :
        f.rows[r].indicator = "KWT" /\ ParseAmrStart(f.rows[r].start) # NaN}

\* the process block has just run on the files of the form
JustProcessed == "success_files" \in messages \/ "error_no_valid_file" \in messages

AmrSlotHolds(file, df) ==
    (/\ JustProcessed
     /\ file_type = FileTypeAmr /\ ~IsNone(file) /\ Get(file).ncols >= AmrWidth) =>
        LET f == Get(file)
        IN /\ Len(df) = 96 * Cardinality(Retained(f))
           /\ \A r \in Retained(f) : \A i \in 0..95 :
                \E n \in 1..Len(df) :
                    /\ df[n]["Tijdstip"] = ParseAmrStart(f.rows[r].start) + (i + 1) * 15
                    /\ df[n]["Volume"] = AmrVolume(f.rows[r].cells[10 + i])

\* C6: in the AMR parse every retained row with day start d yields exactly 96
\* samples, the one of value column i (0..95) at d + (i+1)*15 minutes; rows whose
\* indicator is not KWT yield none.
C6_AmrIntervals ==
    /\ AmrSlotHolds(file_import, df_import)
    /\ AmrSlotHolds(file_injectie, df_injectie)
    /\ AmrSlotHolds(file_pv, df_pv)

\* a parsed AMR row: 96 samples, the first a quarter past the day start, the last
\* at 00:00 of the next day
C6_Witness ==
    /\ JustProcessed
    /\ file_type = FileTypeAmr
    /\ Len(df_import) = 96
    /\ Timestamp(2023, 6, 15, 0, 15) \in Timestamps(df_import)
    /\ Timestamp(2023, 6, 16, 0, 0) \in Timestamps(df_import)
    /\ Timestamp(2023, 6, 15, 0, 0) \notin Timestamps(df_import)

IsServerError(outcome) == outcome.kind = "status" /\ outcome.code \in 500..599

\* C7: one estimate sends at most 3 requests; a further request follows only a 5xx
\* response, and follows every 5xx response while fewer than 3 were sent; without a
\* successful attempt the estimate is empty.
C7_ThreeAttemptsOn5xx ==
    /\ Len(http_log) <= 3
    /\ \A i \in 1..Len(http_log) :
         /\ i < Len(http_log) => IsServerError(http_log[i])
         /\ (IsServerError(http_log[i]) /\ i < 3) => i < Len(http_log)
    /\ (http_log # <<>> /\ http_log[Len(http_log)] # Status(200)) => IsEmpty(pvgis_data)

\* the moment a sheet row prints as dd/mm/yyyy and HH:MM:SS
SheetMoment(datum, tijdstip) == Timestamp(datum[3], datum[2], datum[1], tijdstip[1], tijdstip[2])

QuantitySheets == {"Verbruik", "Injectie", "PV_kwh", "PVGIS_kwh"}

\* C8: the split export of a filtered table has the sheet of a quantity exactly when
\* that column exists and its sum over the filtered rows is not 0; a sheet has one
\* row per filtered row, in order, starting at the row's timestamp and ending 15
\* minutes later, with unit KWH and the register label of the quantity.
C8_SplitExportSheets ==
    (~IsNone(downloads) /\ ~IsNone(filtered_df)) =>
        LET f == Get(filtered_df)
            split == Get(downloads).gesplitst
            sheets == IF IsNone(split) THEN <<>> ELSE Get(split).data
        IN \A n \in QuantitySheets :
             /\ n \in DOMAIN sheets <=>
                  (/\ HasColumn(f, SheetColumn[n])
                   /\ ColumnSum(f, SheetColumn[n], 1, Len(f)) # 0)
             /\ n \in DOMAIN sheets =>
                  /\ Len(sheets[n]) = Len(f)
                  /\ \A i \in 1..Len(f) :
                       /\ SheetMoment(sheets[n][i].van_datum, sheets[n][i].van_tijdstip)
                            = f[i]["Date"]
                       /\ SheetMoment(sheets[n][i].tot_datum, sheets[n][i].tot_tijdstip)
                            = f[i]["Date"] + 15
                       /\ sheets[n][i].Volume.number = f[i][SheetColumn[n]]
                       /\ sheets[n][i].Eenheid = "KWH"
                       /\ sheets[n][i].Register = SheetRegister[n]

\* a split export with the PVGIS sheet and without the import sheet, the import
\* column holding values that cancel out
C8_Witness ==
    /\ ~IsNone(downloads) /\ ~IsNone(filtered_df)
    /\ ~IsNone(Get(downloads).gesplitst)
    /\ "PVGIS_kwh" \in DOMAIN Get(Get(downloads).gesplitst).data
    /\ "Verbruik" \notin DOMAIN Get(Get(downloads).gesplitst).data
    /\ \E i \in 1..Len(Get(filtered_df)) : Get(filtered_df)[i]["import_kwh"] # 0

\* C9: every hourly value v at hour h of the summed series, the last included, gives
\* exactly the four samples h, h+15, h+30, h+45 minutes, each v/4, and the estimate
\* holds no other sample.
C9_FourQuartersPerHour ==
    ~IsNone(total_energy_kwh_hourly) =>
        LET hourly == Get(total_energy_kwh_hourly)
            at(t) == {j \in 1..Len(pvgis_data) : pvgis_data[j]["Tijdstip"] = t}
        IN /\ \A h \in DOMAIN hourly : \A q \in 0..3 :
                /\ Cardinality(at(h + q * 15)) = 1
                /\ \A j \in at(h + q * 15) : 4 * pvgis_data[j]["PVGIS_kwh"] = hourly[h]
           /\ Len(pvgis_data) = 4 * Cardinality(DOMAIN hourly)

\* the dates a file name encodes, as day numbers
NameStart(name) == DaysFromCivil(name[1][1], name[1][2], name[1][3])
NameEnd(name) == DaysFromCivil(name[2][1], name[2][2], name[2][3])

\* C10: an export offered for download holds exactly the rows of the stored unified
\* table whose date lies between the start and end dates of its file name, and that
\* start date is not after that end date.
C10_ExportMatchesFileName ==
    ~IsNone(downloads) =>
        LET export == Get(downloads).standaard
            first == NameStart(export.file_name)
            last == NameEnd(export.file_name)
        IN /\ ~IsNone(combined_df)
           /\ first <= last
           /\ export.data = SelectSeq(Get(combined_df),
                                LAMBDA r : r["Date"] \div 1440 >= first
                                           /\ r["Date"] \div 1440 <= last)

====
